---- MODULE Spec2Model ----
(***************************************************************************)
(* config.py of BettaFish: the process-wide configuration record.          *)
(*                                                                         *)
(* Importing the module runs three steps: lines 16-18 choose the override  *)
(* file, lines 21-97 define the class Settings (its field defaults are     *)
(* evaluated in the class body), line 101 constructs the singleton from    *)
(* the process environment, the chosen override file and the defaults.     *)
(* The model follows the module body step by step, the import machinery    *)
(* that runs it (one initialisation at a time, a failed import is          *)
(* forgotten and may be retried) and the environment it reads.             *)
(***************************************************************************)
EXTENDS Integers, Sequences, FiniteSets, TLC

(***************************************************************************)
(* Python values.  Each type has its own record shape, so that values of   *)
(* different types are simply unequal.                                     *)
(***************************************************************************)
None == [t |-> "None"]

PyStr(s) == [t |-> "str", s |-> s]

PyInt(n) == [t |-> "int", n |-> n]

\* pydantic.Field(default, description=...): a FieldInfo object.  The source's
\* description texts are not ASCII; "description@L<n>" stands for the text on
\* source line n.
Field(default, description) ==
    [t |-> "FieldInfo", default |-> default, description |-> description]

\* repr() of a str (no quote characters occur in the strings of the model).
Repr(v) == "'" \o v.s \o "'"

\* format(v, ""), what an f-string replacement field {v} evaluates to: a str is
\* itself; a FieldInfo has no __format__ of its own, so it is str(v), pydantic's
\* space-separated representation of the object.  In the class body the
\* annotation has not been attached to the FieldInfo yet.
Format(v) ==
    IF v.t = "str" THEN v.s
    ELSE "annotation=NoneType required=False default=" \o Repr(v.default)
         \o " description=" \o Repr(PyStr(v.description))

(***************************************************************************)
(* The class body of Settings, lines 26-91.  A name assigned in the class  *)
(* body is bound in the class namespace to the object Field(...) returned: *)
(* a later use of OLLAMA_BASE_URL or SEARXNG_URL in the same body reads    *)
(* that FieldInfo object, not the string given as its default.             *)
(***************************************************************************)
OLLAMA_BASE_URL == Field(PyStr("http://ollama:11434/v1"), "description@L36")

SEARXNG_URL == Field(PyStr("http://searxng:8888"), "description@L70")

ClassNamespace ==
    [
      DB_DIALECT |-> Field(PyStr("mysql"), "description@L27"),
      DB_HOST |-> Field(PyStr("mysql"), "description@L28"),
      DB_PORT |-> Field(PyInt(3306), "description@L29"),
      DB_USER |-> Field(PyStr("root"), "description@L30"),
      DB_PASSWORD |-> Field(PyStr("local_password"), "description@L31"),
      DB_NAME |-> Field(PyStr("mindspider"), "description@L32"),
      DB_CHARSET |-> Field(PyStr("utf8mb4"), "description@L33"),
      OLLAMA_BASE_URL |-> OLLAMA_BASE_URL,
      INSIGHT_ENGINE_API_KEY |-> Field(PyStr("ollama"), "description@L40"),
      INSIGHT_ENGINE_BASE_URL |-> Field(OLLAMA_BASE_URL, "description@L41"),
      INSIGHT_ENGINE_MODEL_NAME |-> Field(PyStr("qwen3:30b"), "description@L42"),
      MEDIA_ENGINE_API_KEY |-> Field(PyStr("ollama"), "description@L45"),
      MEDIA_ENGINE_BASE_URL |-> Field(OLLAMA_BASE_URL, "description@L46"),
      MEDIA_ENGINE_MODEL_NAME |-> Field(PyStr("qwen3:30b"), "description@L47"),
      QUERY_ENGINE_API_KEY |-> Field(PyStr("ollama"), "description@L50"),
      QUERY_ENGINE_BASE_URL |-> Field(OLLAMA_BASE_URL, "description@L51"),
      QUERY_ENGINE_MODEL_NAME |-> Field(PyStr("qwen3:30b"), "description@L52"),
      REPORT_ENGINE_API_KEY |-> Field(PyStr("ollama"), "description@L55"),
      REPORT_ENGINE_BASE_URL |-> Field(OLLAMA_BASE_URL, "description@L56"),
      REPORT_ENGINE_MODEL_NAME |-> Field(PyStr("qwen3:30b"), "description@L57"),
      FORUM_HOST_API_KEY |-> Field(PyStr("ollama"), "description@L60"),
      FORUM_HOST_BASE_URL |-> Field(OLLAMA_BASE_URL, "description@L61"),
      FORUM_HOST_MODEL_NAME |-> Field(PyStr("qwen3:30b"), "description@L62"),
      KEYWORD_OPTIMIZER_API_KEY |-> Field(PyStr("ollama"), "description@L65"),
      KEYWORD_OPTIMIZER_BASE_URL |-> Field(OLLAMA_BASE_URL, "description@L66"),
      KEYWORD_OPTIMIZER_MODEL_NAME |-> Field(PyStr("qwen3:30b"), "description@L67"),
      SEARXNG_URL |-> SEARXNG_URL,
      TAVILY_API_KEY |-> Field(PyStr("local"), "description@L73"),
      TAVILY_BASE_URL |-> Field(PyStr(Format(SEARXNG_URL) \o "/search"), "description@L74"),
      BOCHA_BASE_URL |-> Field(PyStr(Format(SEARXNG_URL) \o "/search"), "description@L77"),
      BOCHA_WEB_SEARCH_API_KEY |-> Field(PyStr("local"), "description@L78"),
      DEFAULT_SEARCH_HOT_CONTENT_LIMIT |-> Field(PyInt(100), "description@L81"),
      DEFAULT_SEARCH_TOPIC_GLOBALLY_LIMIT_PER_TABLE |-> Field(PyInt(50), "description@L82"),
      DEFAULT_SEARCH_TOPIC_BY_DATE_LIMIT_PER_TABLE |-> Field(PyInt(100), "description@L83"),
      DEFAULT_GET_COMMENTS_FOR_TOPIC_LIMIT |-> Field(PyInt(500), "description@L84"),
      DEFAULT_SEARCH_TOPIC_ON_PLATFORM_LIMIT |-> Field(PyInt(200), "description@L85"),
      MAX_SEARCH_RESULTS_FOR_LLM |-> Field(PyInt(0), "description@L86"),
      MAX_HIGH_CONFIDENCE_SENTIMENT_RESULTS |-> Field(PyInt(0), "description@L87"),
      MAX_REFLECTIONS |-> Field(PyInt(3), "description@L88"),
      MAX_PARAGRAPHS |-> Field(PyInt(6), "description@L89"),
      SEARCH_TIMEOUT |-> Field(PyInt(240), "description@L90"),
      MAX_CONTENT_LENGTH |-> Field(PyInt(500000), "description@L91")
    ]

\* The declared fields, in declaration order.
FieldOrder ==
    <<
      "DB_DIALECT", "DB_HOST", "DB_PORT", "DB_USER", "DB_PASSWORD", "DB_NAME",
      "DB_CHARSET", "OLLAMA_BASE_URL", "INSIGHT_ENGINE_API_KEY", "INSIGHT_ENGINE_BASE_URL",
      "INSIGHT_ENGINE_MODEL_NAME", "MEDIA_ENGINE_API_KEY", "MEDIA_ENGINE_BASE_URL",
      "MEDIA_ENGINE_MODEL_NAME", "QUERY_ENGINE_API_KEY", "QUERY_ENGINE_BASE_URL",
      "QUERY_ENGINE_MODEL_NAME", "REPORT_ENGINE_API_KEY", "REPORT_ENGINE_BASE_URL",
      "REPORT_ENGINE_MODEL_NAME", "FORUM_HOST_API_KEY", "FORUM_HOST_BASE_URL",
      "FORUM_HOST_MODEL_NAME", "KEYWORD_OPTIMIZER_API_KEY", "KEYWORD_OPTIMIZER_BASE_URL",
      "KEYWORD_OPTIMIZER_MODEL_NAME", "SEARXNG_URL", "TAVILY_API_KEY", "TAVILY_BASE_URL",
      "BOCHA_BASE_URL", "BOCHA_WEB_SEARCH_API_KEY", "DEFAULT_SEARCH_HOT_CONTENT_LIMIT",
      "DEFAULT_SEARCH_TOPIC_GLOBALLY_LIMIT_PER_TABLE",
      "DEFAULT_SEARCH_TOPIC_BY_DATE_LIMIT_PER_TABLE",
      "DEFAULT_GET_COMMENTS_FOR_TOPIC_LIMIT", "DEFAULT_SEARCH_TOPIC_ON_PLATFORM_LIMIT",
      "MAX_SEARCH_RESULTS_FOR_LLM", "MAX_HIGH_CONFIDENCE_SENTIMENT_RESULTS",
      "MAX_REFLECTIONS", "MAX_PARAGRAPHS", "SEARCH_TIMEOUT", "MAX_CONTENT_LENGTH"
    >>

Fields == {FieldOrder[i] : i \in 1..Len(FieldOrder)}

\* The fields annotated int; every other field is annotated str.
IntFields ==
    {
      "DB_PORT", "DEFAULT_SEARCH_HOT_CONTENT_LIMIT",
      "DEFAULT_SEARCH_TOPIC_GLOBALLY_LIMIT_PER_TABLE",
      "DEFAULT_SEARCH_TOPIC_BY_DATE_LIMIT_PER_TABLE",
      "DEFAULT_GET_COMMENTS_FOR_TOPIC_LIMIT", "DEFAULT_SEARCH_TOPIC_ON_PLATFORM_LIMIT",
      "MAX_SEARCH_RESULTS_FOR_LLM", "MAX_HIGH_CONFIDENCE_SENTIMENT_RESULTS",
      "MAX_REFLECTIONS", "MAX_PARAGRAPHS", "SEARCH_TIMEOUT", "MAX_CONTENT_LENGTH"
    }

\* The fields whose default is the expression OLLAMA_BASE_URL (lines 41-66).
AgentBaseUrlFields ==
    {
      "INSIGHT_ENGINE_BASE_URL", "MEDIA_ENGINE_BASE_URL", "QUERY_ENGINE_BASE_URL",
      "REPORT_ENGINE_BASE_URL", "FORUM_HOST_BASE_URL", "KEYWORD_OPTIMIZER_BASE_URL"
    }

\* The fields whose default is f"{SEARXNG_URL}/search" (lines 74, 77).
SearchUrlFields == {"TAVILY_BASE_URL", "BOCHA_BASE_URL"}

\* str.lower() on the names of the model: the names holding an upper-case
\* letter are tabulated, every other name is its own lower case.
ToLower ==
    [
      DB_DIALECT |-> "db_dialect",
      DB_HOST |-> "db_host",
      DB_PORT |-> "db_port",
      DB_USER |-> "db_user",
      DB_PASSWORD |-> "db_password",
      DB_NAME |-> "db_name",
      DB_CHARSET |-> "db_charset",
      OLLAMA_BASE_URL |-> "ollama_base_url",
      INSIGHT_ENGINE_API_KEY |-> "insight_engine_api_key",
      INSIGHT_ENGINE_BASE_URL |-> "insight_engine_base_url",
      INSIGHT_ENGINE_MODEL_NAME |-> "insight_engine_model_name",
      MEDIA_ENGINE_API_KEY |-> "media_engine_api_key",
      MEDIA_ENGINE_BASE_URL |-> "media_engine_base_url",
      MEDIA_ENGINE_MODEL_NAME |-> "media_engine_model_name",
      QUERY_ENGINE_API_KEY |-> "query_engine_api_key",
      QUERY_ENGINE_BASE_URL |-> "query_engine_base_url",
      QUERY_ENGINE_MODEL_NAME |-> "query_engine_model_name",
      REPORT_ENGINE_API_KEY |-> "report_engine_api_key",
      REPORT_ENGINE_BASE_URL |-> "report_engine_base_url",
      REPORT_ENGINE_MODEL_NAME |-> "report_engine_model_name",
      FORUM_HOST_API_KEY |-> "forum_host_api_key",
      FORUM_HOST_BASE_URL |-> "forum_host_base_url",
      FORUM_HOST_MODEL_NAME |-> "forum_host_model_name",
      KEYWORD_OPTIMIZER_API_KEY |-> "keyword_optimizer_api_key",
      KEYWORD_OPTIMIZER_BASE_URL |-> "keyword_optimizer_base_url",
      KEYWORD_OPTIMIZER_MODEL_NAME |-> "keyword_optimizer_model_name",
      SEARXNG_URL |-> "searxng_url",
      TAVILY_API_KEY |-> "tavily_api_key",
      TAVILY_BASE_URL |-> "tavily_base_url",
      BOCHA_BASE_URL |-> "bocha_base_url",
      BOCHA_WEB_SEARCH_API_KEY |-> "bocha_web_search_api_key",
      DEFAULT_SEARCH_HOT_CONTENT_LIMIT |-> "default_search_hot_content_limit",
      DEFAULT_SEARCH_TOPIC_GLOBALLY_LIMIT_PER_TABLE |-> "default_search_topic_globally_limit_per_table",
      DEFAULT_SEARCH_TOPIC_BY_DATE_LIMIT_PER_TABLE |-> "default_search_topic_by_date_limit_per_table",
      DEFAULT_GET_COMMENTS_FOR_TOPIC_LIMIT |-> "default_get_comments_for_topic_limit",
      DEFAULT_SEARCH_TOPIC_ON_PLATFORM_LIMIT |-> "default_search_topic_on_platform_limit",
      MAX_SEARCH_RESULTS_FOR_LLM |-> "max_search_results_for_llm",
      MAX_HIGH_CONFIDENCE_SENTIMENT_RESULTS |-> "max_high_confidence_sentiment_results",
      MAX_REFLECTIONS |-> "max_reflections",
      MAX_PARAGRAPHS |-> "max_paragraphs",
      SEARCH_TIMEOUT |-> "search_timeout",
      MAX_CONTENT_LENGTH |-> "max_content_length",
      Unknown_Key |-> "unknown_key"
    ]

Lower(name) == IF name \in DOMAIN ToLower THEN ToLower[name] ELSE name

(***************************************************************************)
(* Validation of one field's input against its annotation (lines 27-91).   *)
(* BaseSettings validates defaults too, so a default takes the same path   *)
(* as an override value.                                                   *)
(***************************************************************************)
DigitValue ==
    [c \in {"0", "1", "2", "3", "4", "5", "6", "7", "8", "9"} |->
        CASE c = "0" -> 0 [] c = "1" -> 1 [] c = "2" -> 2 [] c = "3" -> 3
          [] c = "4" -> 4 [] c = "5" -> 5 [] c = "6" -> 6 [] c = "7" -> 7
          [] c = "8" -> 8 [] c = "9" -> 9]

\* The characters of the raw strings that the model writes into the
\* environment and the override files.
Chars(s) ==
    CASE s = "5432" -> <<"5", "4", "3", "2">>
      [] s = "abc" -> <<"a", "b", "c">>
      [] s = "http://ollama:11434/v1" ->
            <<"h", "t", "t", "p", ":", "/", "/", "o", "l", "l", "a", "m", "a", ":",
              "1", "1", "4", "3", "4", "/", "v", "1">>
      [] OTHER -> <<"?">>

AllDigits(cs) == Len(cs) >= 1 /\ \A i \in 1..Len(cs) : cs[i] \in DOMAIN DigitValue

RECURSIVE DigitsToInt(_)
DigitsToInt(cs) ==
    IF Len(cs) = 0 THEN 0
    ELSE DigitsToInt(SubSeq(cs, 1, Len(cs) - 1)) * 10 + DigitValue[cs[Len(cs)]]

\* Whether a string converts to an int: an optional sign, then decimal digits.
IsIntString(s) ==
    LET cs == Chars(s)
    IN  IF Len(cs) >= 1 /\ cs[1] \in {"+", "-"} THEN AllDigits(Tail(cs)) ELSE AllDigits(cs)

StrToInt(s) ==
    LET cs == Chars(s)
    IN  IF cs[1] = "-" THEN 0 - DigitsToInt(Tail(cs))
        ELSE IF cs[1] = "+" THEN DigitsToInt(Tail(cs))
        ELSE DigitsToInt(cs)

Valid(v) == [ok |-> TRUE, value |-> v]

Invalid == [ok |-> FALSE]

\* A field annotated str accepts a str and nothing else.
ValidateStr(v) == IF v.t = "str" THEN Valid(v) ELSE Invalid

\* A field annotated int accepts an int, and a str that converts to one.
ValidateInt(v) ==
    IF v.t = "int" THEN Valid(v)
    ELSE IF v.t = "str" /\ IsIntString(v.s) THEN Valid(PyInt(StrToInt(v.s)))
    ELSE Invalid

ValidateField(f, v) == IF f \in IntFields THEN ValidateInt(v) ELSE ValidateStr(v)

(***************************************************************************)
(* The settings sources configured by class Config, lines 93-97.           *)
(***************************************************************************)
EmptyMap == [k \in {} |-> ""]

Remove(m, k) == [x \in DOMAIN m \ {k} |-> m[x]]

\* case_sensitive = False: the names of a source are read in lower case.
ParseEnvVars(vars) ==
    [n \in {Lower(k) : k \in DOMAIN vars} |->
        vars[CHOOSE k \in DOMAIN vars : Lower(k) = n]]

\* env_prefix = "", case_sensitive = False: a source has a declared field when it
\* holds the field's name in lower case; the value it gives is the raw string.
SourceData(vars) ==
    [f \in {g \in Fields : Lower(g) \in DOMAIN vars} |-> PyStr(vars[Lower(f)])]

\* As DotEnvExtras would be under extra = "ignore": the names are dropped.
DotEnvExtras_Dropped(vars) == EmptyMap

\* extra = "allow": the names of the override file that belong to no declared
\* field are passed on under the (lower-case) name they were read with.
DotEnvExtras(vars) ==
    [n \in {m \in DOMAIN vars : \A f \in Fields : Lower(f) # m} |-> PyStr(vars[n])]

\* env_file = ENV_FILE: the file is read if it is there; a missing file gives
\* no variables.
ReadEnvFile(file) == IF file.exists THEN ParseEnvVars(file.vars) ELSE EmptyMap

EnvSettings(env) == SourceData(ParseEnvVars(env))

DotEnvSettings(file) ==
    LET vars == ReadEnvFile(file) IN SourceData(vars) @@ DotEnvExtras(vars)

\* As MergeSources would be with the override file first.
MergeSources_FileFirst(envData, dotenvData) == dotenvData @@ envData

\* The sources are merged with the environment first: where both hold a name,
\* the environment's value is kept.
MergeSources(envData, dotenvData) == envData @@ dotenvData

\* As FieldInput would be if a value that does not validate were passed over
\* for the default.
FieldInput_DefaultOnBad(cls, merged, f) ==
    IF f \in DOMAIN merged /\ ValidateField(f, merged[f]).ok THEN merged[f]
    ELSE cls[f].default

\* The input of a field: the merged sources' value, else the class's default.
FieldInput(cls, merged, f) == IF f \in DOMAIN merged THEN merged[f] ELSE cls[f].default

\* Settings(): every declared field is validated; one invalid input raises the
\* validation error and no object is made.  The names that are no declared
\* field are kept as they are (extra = "allow").
Construct(cls, env, file) ==
    LET merged == MergeSources(EnvSettings(env), DotEnvSettings(file))
        checked == [f \in Fields |-> ValidateField(f, FieldInput(cls, merged, f))]
    IN  IF \A f \in Fields : checked[f].ok
        THEN Valid([t |-> "Settings",
                    fields |-> [f \in Fields |-> checked[f].value],
                    extra |-> [n \in DOMAIN merged \ Fields |-> merged[n]]])
        ELSE Invalid

(***************************************************************************)
(* The bounds of the model.                                                *)
(***************************************************************************)
\* How many changes of the environment and of the override files a run makes
\* after the process has started.
MaxEdits == 1

Threads == {"t1", "t2"}

MainThread == "t1"

\* The names written by a change: a declared int field spelled in lower case, a
\* field whose default derives from another, the base of derived defaults, and
\* a name that is no field.
EditNames == {"db_port", "INSIGHT_ENGINE_BASE_URL", "SEARXNG_URL", "Unknown_Key"}

EditValues == {"5432", "abc"}

\* The override file of the working directory and the one beside the module
\* (lines 16-17), taken to be different directories.
CWD_ENV == "<cwd>/.env"

PROJECT_ROOT_ENV == "<project_root>/.env"

Paths == {CWD_ENV, PROJECT_ROOT_ENV}

Unbound == "<unbound>"

NoFile == [exists |-> FALSE, vars |-> EmptyMap]

FileOf(vars) == [exists |-> TRUE, vars |-> vars]

\* The six agent base URLs given explicitly, as a deployment's .env does, and
\* the same in the environment, spelled there in lower case.
AgentVars == [f \in AgentBaseUrlFields |-> "http://ollama:11434/v1"]

LowerAgentVars ==
    [n \in {Lower(f) : f \in AgentBaseUrlFields} |-> "http://ollama:11434/v1"]

\* How many attribute assignments the consumers of the record make.
MaxAssigns == 2

\* What a consumer assigns to an attribute of the record.
AssignNames == {"DB_PORT", "debug"}

AssignValues == {PyInt(1), PyStr("x")}

VARIABLES
    environ,        \* os.environ: name -> raw string
    disk,           \* path -> the override file there, or NoFile
    sysModules,     \* the module's entry in sys.modules: absent, initializing, loaded
    ENV_FILE,       \* the module global of line 18, Unbound before it is assigned
    SettingsCls,    \* the class namespace of Settings once lines 21-97 have run, else None
    settings,       \* the module global of line 101, None while unassigned
    pc,             \* each thread's place: idle, line16, line21, line101, waiting, have, raised
    observed,       \* the record each thread's last access returned, else None
    accessedAt,     \* history: Snapshot at that access
    edits,          \* changes of the environment made so far
    assigns,        \* attribute assignments made so far
    cwdExisted,     \* history: whether <cwd>/.env existed when line 18 ran
    ctorIn,         \* history: Snapshot when line 101 last ran
    outcome,        \* history: none, ok, raised: how line 101 last ended
    ctorCount,      \* history: how many times line 101 has made a record
    returned,       \* history: the records the accesses have returned
    waited          \* history: the threads that found the module being initialised

vars ==
    <<environ, disk, sysModules, ENV_FILE, SettingsCls, settings, pc, observed, accessedAt,
      edits, assigns, cwdExisted, ctorIn, outcome, ctorCount, returned, waited>>

envVars == <<environ, disk, edits>>

moduleVars == <<sysModules, ENV_FILE, SettingsCls, settings>>

readVars == <<observed, accessedAt>>

histVars == <<cwdExisted, ctorIn, outcome, ctorCount, assigns>>

\* The environment and the files as they are, with the choice line 18 made from.
Snapshot == [t |-> "inputs", env |-> environ, files |-> disk, cwdExisted |-> cwdExisted]

Init ==
    /\ environ \in {EmptyMap, LowerAgentVars}
    /\ disk \in [Paths -> {NoFile, FileOf(EmptyMap), FileOf(AgentVars)}]
    /\ sysModules = "absent"
    /\ ENV_FILE = Unbound
    /\ SettingsCls = None
    /\ settings = None
    /\ pc = [t \in Threads |-> "idle"]
    /\ observed = [t \in Threads |-> None]
    /\ accessedAt = [t \in Threads |-> None]
    /\ edits = 0
    /\ assigns = 0
    /\ cwdExisted = FALSE
    /\ ctorIn = None
    /\ outcome = "none"
    /\ ctorCount = 0
    /\ returned = {}
    /\ waited = {}

(***************************************************************************)
(* The environment: another process or the user changes the variables and  *)
(* the files at any time.  A source never holds two spellings of one name. *)
(***************************************************************************)
NoClash(m, name) == \A k \in DOMAIN m : Lower(k) = Lower(name) => k = name

SetEnv(name, value) ==
    /\ edits < MaxEdits
    /\ NoClash(environ, name)
    /\ environ' = (name :> value) @@ environ
    /\ edits' = edits + 1
    /\ UNCHANGED <<disk, moduleVars, pc, readVars, histVars, returned, waited>>

UnsetEnv(name) ==
    /\ edits < MaxEdits
    /\ name \in DOMAIN environ
    /\ environ' = Remove(environ, name)
    /\ edits' = edits + 1
    /\ UNCHANGED <<disk, moduleVars, pc, readVars, histVars, returned, waited>>

WriteEnvFile(path, name, value) ==
    /\ edits < MaxEdits
    /\ NoClash(disk[path].vars, name)
    /\ disk' = [disk EXCEPT ![path] = FileOf((name :> value) @@ disk[path].vars)]
    /\ edits' = edits + 1
    /\ UNCHANGED <<environ, moduleVars, pc, readVars, histVars, returned, waited>>

RemoveEnvFile(path) ==
    /\ edits < MaxEdits
    /\ disk[path].exists
    /\ disk' = [disk EXCEPT ![path] = NoFile]
    /\ edits' = edits + 1
    /\ UNCHANGED <<environ, moduleVars, pc, readVars, histVars, returned, waited>>

(***************************************************************************)
(* Importing the module.  The import machinery runs the module body in one *)
(* thread at a time; a thread that finds the module being initialised      *)
(* waits for it; a module whose body raised is dropped from sys.modules.   *)
(***************************************************************************)
CanImport(t) == pc[t] \in {"idle", "have", "raised"}

\* The module body runs only when sys.modules has no entry for the module.
NeedsInit(state) == state = "absent"

\* The first import, or one after a failed import: the module body starts.
ImportStart(t) ==
    /\ CanImport(t)
    /\ NeedsInit(sysModules)
    /\ sysModules' = "initializing"
    /\ pc' = [pc EXCEPT ![t] = "line16"]
    /\ UNCHANGED <<envVars, ENV_FILE, SettingsCls, settings, readVars, histVars, returned,
                   waited>>

ImportWait(t) ==
    /\ CanImport(t)
    /\ sysModules = "initializing"
    /\ pc' = [pc EXCEPT ![t] = "waiting"]
    /\ waited' = waited \cup {t}
    /\ UNCHANGED <<envVars, moduleVars, readVars, histVars, returned>>

\* As Ready would be if a module still running its body were handed out.
Ready_Early(state) == state # "absent"

\* An import returns the module at once when sys.modules holds it initialised.
Ready(state) == state = "loaded"

\* As Lookup would be if an access built the record anew from what the
\* environment and the override file hold at that moment.
Lookup_Reload(current) ==
    LET made == Construct(SettingsCls, environ, disk[ENV_FILE])
    IN  IF made.ok THEN made.value ELSE current

\* What an access finds once the module is in sys.modules: the global settings.
Lookup(current) == current

\* An access when the module is loaded: `from config import settings`, first or
\* repeated, and the wake-up of a thread that waited for the initialisation.
ImportCached(t) ==
    /\ CanImport(t) \/ pc[t] = "waiting"
    /\ Ready(sysModules)
    /\ pc' = [pc EXCEPT ![t] = "have"]
    /\ observed' = [observed EXCEPT ![t] = Lookup(settings)]
    /\ accessedAt' = [accessedAt EXCEPT ![t] = Snapshot]
    /\ returned' = returned \cup {Lookup(settings)}
    /\ UNCHANGED <<envVars, moduleVars, histVars, waited>>

\* A waiting thread whose module was dropped runs the body itself.
ImportRetry(t) ==
    /\ pc[t] = "waiting"
    /\ NeedsInit(sysModules)
    /\ sysModules' = "initializing"
    /\ pc' = [pc EXCEPT ![t] = "line16"]
    /\ UNCHANGED <<envVars, ENV_FILE, SettingsCls, settings, readVars, histVars, returned,
                   waited>>

\* As ResolveEnvFile would be without the look at the working directory.
ResolveEnvFile_ModuleDirOnly(cwdExists) == PROJECT_ROOT_ENV

\* Line 18: CWD_ENV if CWD_ENV.exists() else PROJECT_ROOT / ".env".
ResolveEnvFile(cwdExists) == IF cwdExists THEN CWD_ENV ELSE PROJECT_ROOT_ENV

Exec_16_18(t) ==
    /\ pc[t] = "line16"
    /\ ENV_FILE' = ResolveEnvFile(disk[CWD_ENV].exists)
    /\ cwdExisted' = disk[CWD_ENV].exists
    /\ pc' = [pc EXCEPT ![t] = "line21"]
    /\ UNCHANGED <<envVars, sysModules, SettingsCls, settings, readVars, ctorIn, outcome,
                   ctorCount, assigns, returned, waited>>

\* Lines 21-97: the class statement; the defaults are evaluated here.
Exec_21_97(t) ==
    /\ pc[t] = "line21"
    /\ SettingsCls' = ClassNamespace
    /\ pc' = [pc EXCEPT ![t] = "line101"]
    /\ UNCHANGED <<envVars, sysModules, ENV_FILE, settings, readVars, histVars, returned,
                   waited>>

\* Line 101: settings = Settings().  A validation error leaves the module
\* without the global and the import fails.
Exec_101(t) ==
    /\ pc[t] = "line101"
    /\ LET made == Construct(SettingsCls, environ, disk[ENV_FILE])
       IN  /\ ctorIn' = Snapshot
           /\ IF made.ok
              THEN /\ settings' = made.value
                   /\ sysModules' = "loaded"
                   /\ pc' = [pc EXCEPT ![t] = "have"]
                   /\ observed' = [observed EXCEPT ![t] = made.value]
                   /\ accessedAt' = [accessedAt EXCEPT ![t] = Snapshot]
                   /\ returned' = returned \cup {made.value}
                   /\ outcome' = "ok"
                   /\ ctorCount' = ctorCount + 1
                   /\ UNCHANGED <<ENV_FILE, SettingsCls>>
              ELSE /\ settings' = None
                   /\ sysModules' = "absent"
                   /\ ENV_FILE' = Unbound
                   /\ SettingsCls' = None
                   /\ pc' = [pc EXCEPT ![t] = "raised"]
                   /\ outcome' = "raised"
                   /\ UNCHANGED <<readVars, returned, ctorCount>>
    /\ UNCHANGED <<envVars, cwdExisted, assigns, waited>>

EnvStep ==
    \/ \E name \in EditNames, value \in EditValues : SetEnv(name, value)
    \/ \E name \in DOMAIN environ : UnsetEnv(name)
    \/ \E path \in Paths, name \in EditNames, value \in EditValues :
          WriteEnvFile(path, name, value)
    \/ \E path \in Paths : RemoveEnvFile(path)

\* The steps of the thread that imports the module in a single-threaded process.
MainStep ==
    \/ ImportStart(MainThread)
    \/ ImportCached(MainThread)
    \/ Exec_16_18(MainThread)
    \/ Exec_21_97(MainThread)
    \/ Exec_101(MainThread)

\* One process whose main thread imports the module and uses it, while the
\* environment and the override files change around it.
Next == EnvStep \/ MainStep

Spec == Init /\ [][Next]_vars

\* The steps of several threads that import the module concurrently.
ThreadStep ==
    \E t \in Threads :
        \/ ImportStart(t)
        \/ ImportWait(t)
        \/ ImportCached(t)
        \/ ImportRetry(t)
        \/ Exec_16_18(t)
        \/ Exec_21_97(t)
        \/ Exec_101(t)

\* Several threads importing and using the module while the environment and
\* the override files stay as they are.
NextThreads == ThreadStep

SpecThreads == Init /\ [][NextThreads]_vars

(***************************************************************************)
(* A consumer of the record.  Class Config (lines 93-97) does not freeze   *)
(* the model and allows extra names, so an assignment to an attribute of   *)
(* the record stores the value, unvalidated: in the declared field of that *)
(* name, or as a new extra attribute.                                      *)
(***************************************************************************)
SetAttribute(obj, name, value) ==
    IF name \in Fields
    THEN [obj EXCEPT !.fields[name] = value]
    ELSE [obj EXCEPT !.extra = (name :> value) @@ obj.extra]

SetAttr(t, name, value) ==
    /\ pc[t] = "have"
    /\ assigns < MaxAssigns
    /\ settings' = SetAttribute(settings, name, value)
    /\ assigns' = assigns + 1
    /\ UNCHANGED <<envVars, sysModules, ENV_FILE, SettingsCls, pc, readVars, cwdExisted,
                   ctorIn, outcome, ctorCount, returned, waited>>

AssignStep ==
    \E t \in Threads, name \in AssignNames, value \in AssignValues : SetAttr(t, name, value)

\* The imports and accesses of the threads, with the consumers' assignments.
NextAssign == ThreadStep \/ AssignStep

SpecAssign == Init /\ [][NextAssign]_vars

(***************************************************************************)
(* What the claims speak of, read from the history of the last run of line *)
(* 101: the sources as they were then.                                     *)
(***************************************************************************)
Attempted == outcome # "none"

\* A source has a field when it holds a name equal to the field's name, letter
\* case aside.
HasField(m, f) == \E k \in DOMAIN m : Lower(k) = Lower(f)

ValueOf(m, f) == m[CHOOSE k \in DOMAIN m : Lower(k) = Lower(f)]

FileVarsAt(path) ==
    IF path \in Paths /\ ctorIn.files[path].exists THEN ctorIn.files[path].vars
    ELSE EmptyMap

\* The file line 18 chose for the last run of line 101, by what was on disk
\* when line 18 ran.
ChosenPath == IF ctorIn.cwdExisted THEN CWD_ENV ELSE PROJECT_ROOT_ENV

\* The value that wins for a field: environment, else override file, else default.
Winner(fileVars, f) ==
    IF HasField(ctorIn.env, f) THEN PyStr(ValueOf(ctorIn.env, f))
    ELSE IF HasField(fileVars, f) THEN PyStr(ValueOf(fileVars, f))
    ELSE ClassNamespace[f].default

Recognized(m) == {k \in DOMAIN m : \E f \in Fields : Lower(k) = Lower(f)}

Unrecognized(m) == DOMAIN m \ Recognized(m)

Restrict(m, keys) == [k \in keys |-> m[k]]

\* The defaults as documented: the literal of the field's declaration, and for
\* a derived field the string built from its base field's literal.
Documented(f) ==
    IF f \in AgentBaseUrlFields THEN PyStr("http://ollama:11434/v1")
    ELSE IF f \in SearchUrlFields THEN PyStr("http://searxng:8888/search")
    ELSE ClassNamespace[f].default

FullyPopulated(r) ==
    /\ r.t = "Settings"
    /\ DOMAIN r.fields = Fields
    /\ \A f \in Fields : r.fields[f].t = (IF f \in IntFields THEN "int" ELSE "str")

\* C1: every field of the record holds the value chosen by the precedence
\* environment variable > override file > built-in default, a source having the
\* field when it holds the field's name in any letter case.
C1_Precedence ==
    settings # None =>
        \A f \in Fields :
            ValidateField(f, Winner(FileVarsAt(ENV_FILE), f)) = Valid(settings.fields[f])

\* A record in which one field was in the environment (under another spelling
\* than the declared one) and in the override file with different values and
\* holds the environment's, and another field holds its default.
C1_Witness ==
    /\ settings # None
    /\ \E f \in Fields :
          /\ HasField(ctorIn.env, f) /\ f \notin DOMAIN ctorIn.env
          /\ HasField(FileVarsAt(ENV_FILE), f)
          /\ ValueOf(ctorIn.env, f) # ValueOf(FileVarsAt(ENV_FILE), f)
          /\ settings.fields[f] = PyStr(ValueOf(ctorIn.env, f))
    /\ \E g \in Fields :
          /\ ~HasField(ctorIn.env, g) /\ ~HasField(FileVarsAt(ENV_FILE), g)
          /\ settings.fields[g] = ClassNamespace[g].default

\* C2: with no override file anywhere and nothing in the environment, the two
\* search endpoints resolve to "http://searxng:8888/search" and the six agent
\* base URLs to the string OLLAMA_BASE_URL defaults to.
C2_DerivedDefaults ==
    ( /\ Attempted
      /\ ctorIn.env = EmptyMap
      /\ \A p \in Paths : ~ctorIn.files[p].exists )
    => /\ settings # None
       /\ \A f \in SearchUrlFields : settings.fields[f] = PyStr("http://searxng:8888/search")
       /\ \A f \in AgentBaseUrlFields :
             settings.fields[f] = ClassNamespace["OLLAMA_BASE_URL"].default

\* C3: with no entry for any field in the environment or in an override file,
\* construction succeeds, every field with a literal default holds it, and no
\* declared field is missing.
C3_LiteralDefaults ==
    ( /\ Attempted
      /\ Recognized(ctorIn.env) = {}
      /\ \A p \in Paths : Recognized(FileVarsAt(p)) = {} )
    => /\ settings # None
       /\ DOMAIN settings.fields = Fields
       /\ \A f \in Fields \ (AgentBaseUrlFields \cup SearchUrlFields) :
             settings.fields[f] = ClassNamespace[f].default
       /\ settings.fields["DB_PORT"] = PyInt(3306)
       /\ settings.fields["SEARXNG_URL"] = PyStr("http://searxng:8888")
       /\ settings.fields["MAX_CONTENT_LENGTH"] = PyInt(500000)

\* C4: when exactly one field is overridden, by one valid entry in one source,
\* that field holds the override and every other field its documented default.
C4_OnlyThatField ==
    \A f \in Fields :
        ( /\ Attempted
          /\ Cardinality(Recognized(ctorIn.env)) + Cardinality(Recognized(FileVarsAt(CWD_ENV)))
                + Cardinality(Recognized(FileVarsAt(PROJECT_ROOT_ENV))) = 1
          /\ HasField(ctorIn.env, f) \/ HasField(FileVarsAt(ChosenPath), f)
          /\ ValidateField(f, Winner(FileVarsAt(ChosenPath), f)).ok )
        => /\ settings # None
           /\ Valid(settings.fields[f]) = ValidateField(f, Winner(FileVarsAt(ChosenPath), f))
           /\ \A g \in Fields \ {f} : settings.fields[g] = Documented(g)

\* C5: when the value that wins for an int field is a string that is no
\* integer, line 101 raises and no record exists: the module has no settings.
C5_BadIntRaises ==
    ( /\ Attempted
      /\ \E f \in IntFields :
            LET w == Winner(FileVarsAt(ChosenPath), f)
            IN  w.t = "str" /\ ~IsIntString(w.s) )
    => /\ outcome = "raised"
       /\ settings = None
       /\ sysModules # "loaded"
       /\ \A t \in Threads : observed[t] = None

\* A failed construction whose only invalid input is an int field's, given by
\* the environment.
C5_Witness ==
    /\ outcome = "raised"
    /\ settings = None
    /\ \E f \in IntFields :
          /\ HasField(ctorIn.env, f)
          /\ ~IsIntString(ValueOf(ctorIn.env, f))
          /\ \A g \in Fields \ {f} :
                ValidateField(g, Winner(FileVarsAt(ChosenPath), g)).ok

\* C6: the override file is chosen when line 18 runs, the working directory's
\* if it exists then, else the one beside the module, and the choice stands:
\* the record takes nothing from the other file, whatever it holds, and nothing
\* from a file created or removed afterwards changes the path.
C6_OneFileChosenOnce ==
    /\ ENV_FILE # Unbound => ENV_FILE = (IF cwdExisted THEN CWD_ENV ELSE PROJECT_ROOT_ENV)
    /\ settings # None =>
          \A f \in Fields :
              ~HasField(ctorIn.env, f) =>
                  Valid(settings.fields[f]) =
                      ValidateField(f, IF HasField(FileVarsAt(ChosenPath), f)
                                       THEN PyStr(ValueOf(FileVarsAt(ChosenPath), f))
                                       ELSE ClassNamespace[f].default)

\* A record built while the working directory's file was the choice and a field
\* stood only in the file beside the module: the field holds its default.
C6_Witness ==
    /\ settings # None
    /\ ctorIn.cwdExisted
    /\ \E f \in Fields :
          /\ HasField(FileVarsAt(PROJECT_ROOT_ENV), f)
          /\ ~HasField(FileVarsAt(CWD_ENV), f)
          /\ ~HasField(ctorIn.env, f)
          /\ settings.fields[f] = ClassNamespace[f].default
          /\ PyStr(ValueOf(FileVarsAt(PROJECT_ROOT_ENV), f)) # ClassNamespace[f].default

\* C7: the record is made at most once per process and every access returns
\* that one record, with the same field values, whatever has changed in the
\* environment or the override files in between.
C7_Singleton ==
    /\ ctorCount <= 1
    /\ (settings # None) = (ctorCount = 1)
    /\ Cardinality(returned) <= 1
    /\ \A t \in Threads : observed[t] # None => observed[t] = settings

\* An access made after the environment or a file had changed since the
\* record was built.
C7_Witness ==
    \E t \in Threads :
        /\ observed[t] # None
        /\ accessedAt[t].env # ctorIn.env \/ accessedAt[t].files # ctorIn.files
        /\ Cardinality(returned) = 1

\* C8: after construction every field of the singleton holds the value it was
\* given at construction and no field is added.
C8_Immutable ==
    settings # None =>
        settings = Construct(ClassNamespace, ctorIn.env, ctorIn.files[ENV_FILE]).value

\* C9 as stated: every unrecognized name of the environment and of the override
\* file is retained with its value in the record.
C9_AllRetained ==
    settings # None =>
        \A m \in {ctorIn.env, FileVarsAt(ENV_FILE)} :
            \A k \in Unrecognized(m) :
                \E n \in DOMAIN settings.extra :
                    Lower(n) = Lower(k) /\ settings.extra[n] = PyStr(m[k])

\* C9 amended: an unrecognized name never makes construction fail and never
\* changes a declared field; the unrecognized names of the chosen override file
\* are retained, in lower case, with their values, apart from the declared
\* fields; those of the environment are not retained.
C9_FileKeysRetained ==
    /\ outcome = "raised" =>
          \E f \in Fields : ~ValidateField(f, Winner(FileVarsAt(ChosenPath), f)).ok
    /\ settings # None =>
          LET fileVars == FileVarsAt(ENV_FILE)
              plain == Construct(ClassNamespace,
                                 Restrict(ctorIn.env, Recognized(ctorIn.env)),
                                 FileOf(Restrict(fileVars, Recognized(fileVars))))
          IN  /\ plain.ok
              /\ plain.value.fields = settings.fields
              /\ DOMAIN settings.extra = {Lower(k) : k \in Unrecognized(fileVars)}
              /\ DOMAIN settings.extra \cap Fields = {}
              /\ \A k \in Unrecognized(fileVars) :
                    settings.extra[Lower(k)] = PyStr(fileVars[k])

\* A record built from an override file holding a name that is no field.
C9_Witness ==
    /\ settings # None
    /\ Unrecognized(FileVarsAt(ENV_FILE)) # {}
    /\ DOMAIN settings.extra # {}

\* C10: every thread whose import has returned holds a fully initialised
\* record, and all the threads hold the same field values.
C10_ThreadsAgree ==
    \A t1 \in Threads :
        /\ pc[t1] = "have" => observed[t1] # None
        /\ observed[t1] # None =>
              /\ FullyPopulated(observed[t1])
              /\ \A t2 \in Threads : observed[t2] # None => observed[t2] = observed[t1]

\* Two threads hold the record and one of them came while the other was
\* running the module body.
C10_Witness ==
    \E t1, t2 \in Threads :
        /\ t1 # t2
        /\ observed[t1] # None
        /\ observed[t2] # None
        /\ t2 \in waited
====
